---- MODULE Spec2Model ----
(***************************************************************************)
(* A model of the get-changed-files action: run() and the event handlers   *)
(* (both in src/src/main.ts) and the git helper of src/src/git-helper.ts.  *)
(* Strings the code parses are sequences of one-character                  *)
(* strings, so that trim, split, match and join are computed as the code   *)
(* computes them.                                                          *)
(***************************************************************************)
EXTENDS Integers, Sequences, FiniteSets, TLC

\* ------------------------------------------------------------------ bounds

\* Largest number of file entries in one compare-commits response.
MaxFiles == 2
\* Largest number of lines in one `git diff` / `git status` output.
MaxLines == 2

\* ----------------------------------------------------------- JS primitives

\* The JavaScript value `undefined`, where a string is expected (no string of
\* the model is this one: strings are sequences of single characters).
Undefined == <<"undefined">>

\* Characters matched by \s in a JavaScript regular expression, and removed
\* by String.prototype.trim.
IsWs(c) == c \in {" ", "\t", "\n", "\r"}

\* String.prototype.trim.
Trim(s) ==
  LET keep == {i \in 1..Len(s) : ~IsWs(s[i])}
  IN IF keep = {} THEN <<>>
     ELSE LET lo == CHOOSE i \in keep : \A j \in keep : i <= j
              hi == CHOOSE i \in keep : \A j \in keep : j <= i
          IN SubSeq(s, lo, hi)

\* String.prototype.split(sep) for a one-character separator.
SplitChar(s, sep) ==
  LET RECURSIVE go(_, _, _)
      go(i, cur, acc) ==
        IF i > Len(s) THEN Append(acc, cur)
        ELSE IF s[i] = sep THEN go(i + 1, <<>>, Append(acc, cur))
        ELSE go(i + 1, Append(cur, s[i]), acc)
  IN go(1, <<>>, <<>>)

\* String.prototype.split(/\s+/): the pieces between maximal whitespace runs.
SplitWs(s) ==
  LET RECURSIVE go(_, _, _, _)
      go(i, cur, acc, inWs) ==
        IF i > Len(s) THEN Append(acc, cur)
        ELSE IF IsWs(s[i])
          THEN IF inWs THEN go(i + 1, cur, acc, TRUE)
               ELSE go(i + 1, <<>>, Append(acc, cur), TRUE)
        ELSE go(i + 1, Append(cur, s[i]), acc, FALSE)
  IN go(1, <<>>, <<>>, FALSE)

\* Array.prototype.join(sep).
RECURSIVE Join(_, _)
Join(list, sep) ==
  IF Len(list) = 0 THEN <<>>
  ELSE IF Len(list) = 1 THEN list[1]
  ELSE list[1] \o sep \o Join(Tail(list), sep)

\* String.prototype.includes for a one-character needle.
Includes(s, c) == \E i \in 1..Len(s) : s[i] = c

\* String.prototype.startsWith / endsWith.
StartsWith(s, p) == Len(s) >= Len(p) /\ SubSeq(s, 1, Len(p)) = p
EndsWith(s, p) == Len(s) >= Len(p) /\ SubSeq(s, Len(s) - Len(p) + 1, Len(s)) = p

\* Array.prototype.map, for a sequence and an operator.
Map(list, Op(_)) == [i \in 1..Len(list) |-> Op(list[i])]

\* JSON.stringify of an array of strings (the names need no escaping).
JsonStringify(list) ==
  <<"[">> \o Join(Map(list, LAMBDA n : <<"\"">> \o n \o <<"\"">>), <<",">>) \o <<"]">>

\* All sequences over S of length at most n.
SeqUpTo(S, n) == UNION {[1..k -> S] : k \in 0..n}

\* --------------------------------------------------------- literal strings

RefPrefix == <<"r", "e", "f", ":">>
RefsHeads == <<"r", "e", "f", "s", "/", "h", "e", "a", "d", "s", "/">>
HeadWord == <<"H", "E", "A", "D">>
Tab == <<"\t">>
Newline == <<"\n">>

\* File paths of the modelled repository.
PathA == <<"a", ".", "t">>
PathSpace == <<"b", " ", "c", ".", "m">>
PathNoExt == <<"k">>
PathOld == <<"o", ".", "t">>
PathNew == <<"n", ".", "m">>

\* ------------------------------------------------- git-helper.ts: execute

\* What the git executable prints for `ls-remote --symref <url> HEAD`: the
\* symbolic-ref line for the default branch and the HEAD commit line, or an
\* output in which no line starts with `ref:` or ends in `HEAD`.
BranchNames == {<<"d", "e", "v">>, <<"f", "/", "x">>}

LsRemoteReplies ==
  [kind : {"symref"}, branch : BranchNames]
    \cup {[kind |-> "nohead", branch |-> Undefined]}

LsRemoteText(r) ==
  IF r.kind = "symref"
    THEN RefPrefix \o <<" ">> \o RefsHeads \o r.branch \o Tab \o HeadWord \o Newline
         \o <<"9", "f">> \o Tab \o HeadWord \o Newline
    ELSE <<"9", "f">> \o Tab \o RefsHeads \o <<"m">> \o Newline

\* What git prints for `diff --name-status base head`: one line per changed
\* path, `<code>\t<path>`, a rename as `<code>\t<old>\t<new>`.
DiffEntries ==
  { [code |-> <<"A">>, old |-> PathA, new |-> Undefined],
    [code |-> <<"M">>, old |-> PathSpace, new |-> Undefined],
    [code |-> <<"D">>, old |-> PathNoExt, new |-> Undefined],
    [code |-> <<"T">>, old |-> PathA, new |-> Undefined],
    [code |-> <<"R", "9">>, old |-> PathOld, new |-> PathNew] }

\* What git prints for `status --porcelain`: `XY <path>`, a rename as
\* `XY <old> -> <new>`.
StatusEntries ==
  { [code |-> <<"?", "?">>, old |-> PathA, new |-> Undefined],
    [code |-> <<" ", "M">>, old |-> PathNoExt, new |-> Undefined],
    [code |-> <<"R", " ">>, old |-> PathOld, new |-> PathNew] }

DiffLine(e) ==
  e.code \o Tab \o e.old \o (IF e.new = Undefined THEN <<>> ELSE Tab \o e.new)

StatusLine(e) ==
  e.code \o <<" ">> \o e.old
    \o (IF e.new = Undefined THEN <<>> ELSE <<" ", "-", ">", " ">> \o e.new)

\* The captured standard output: every line ends with a newline.
RECURSIVE OutputText(_)
OutputText(lines) ==
  IF lines = <<>> THEN <<>>
  ELSE Head(lines) \o Newline \o OutputText(Tail(lines))

\* ---------------------------------------- git-helper.ts: getDefaultBranch

\* line.match(/refs\/heads\/([^/]+)\s+HEAD$/): the first capture group, or
\* Undefined when the line does not match.
MatchDefaultBranch(line) ==
  LET Capture(i) ==
        LET rest == SubSeq(line, i + Len(RefsHeads), Len(line) - Len(HeadWord))
        IN IF /\ Len(rest) >= 2
              /\ IsWs(rest[Len(rest)])
              /\ ~Includes(SubSeq(rest, 1, Len(rest) - 1), "/")
             THEN SubSeq(rest, 1, Len(rest) - 1)
             ELSE Undefined
      at == {i \in 1..Len(line) :
               /\ i + Len(RefsHeads) + Len(HeadWord) - 1 <= Len(line)
               /\ SubSeq(line, i, i + Len(RefsHeads) - 1) = RefsHeads
               /\ EndsWith(line, HeadWord)
               /\ Capture(i) # Undefined}
  IN IF at = {} THEN Undefined
     ELSE Capture(CHOOSE i \in at : \A j \in at : i <= j)

DefaultBranchError ==
  "Unexpected output when retrieving default branch"

\* getDefaultBranch on the captured output: the branch of the first line
\* that starts with `ref:` or ends in `HEAD` and matches, else the error.
getDefaultBranch(output) ==
  LET lines == Map(SplitChar(Trim(output), "\n"), Trim)
      hits == {i \in 1..Len(lines) :
                 /\ StartsWith(lines[i], RefPrefix) \/ EndsWith(lines[i], HeadWord)
                 /\ MatchDefaultBranch(lines[i]) # Undefined}
  IN IF hits = {}
       THEN [ok |-> FALSE, error |-> DefaultBranchError]
       ELSE [ok |-> TRUE,
             value |-> Trim(MatchDefaultBranch(lines[CHOOSE i \in hits : \A j \in hits : i <= j]))]

\* ------------------------------------- github-event-handlers.ts: local path

\* mapFileStatus: the statusMap lookup with its `|| 'changed'` default.
mapFileStatus(status) ==
  CASE status = <<"A">> -> "added"
    [] status = <<"M">> -> "modified"
    [] status = <<"D">> -> "removed"
    [] status = <<"R">> -> "renamed"
    [] status = <<"?">> -> "added"
    [] OTHER -> "changed"

\* The callback of getChangedFilesFromGit's map: one record from one line.
ParseLine(line) ==
  LET parts == SplitWs(Trim(line))
      shortStatus == parts[1]
      before == IF Len(parts) >= 2 THEN parts[2] ELSE Undefined
      after == IF Len(parts) >= 3 THEN parts[3] ELSE Undefined
      statusCode == SubSeq(shortStatus, 1, IF Len(shortStatus) >= 1 THEN 1 ELSE 0)
  IN [name |-> IF after # Undefined THEN after ELSE before,
      status |-> mapFileStatus(statusCode)]

\* getChangedFilesFromGit, given what getDiff and getStatus returned.
getChangedFilesFromGit(diff, status) ==
  LET lines == SplitChar(diff, "\n") \o SplitChar(status, "\n")
  IN Map(SelectSeq(lines, LAMBDA l : l # <<>>), ParseLine)

\* ------------------------------------ github-event-handlers.ts: remote path

HttpStatuses == {200, 404}
CompareStatuses == {"ahead", "behind"}
ApiFiles ==
  { [filename |-> PathA, status |-> "added"],
    [filename |-> PathA, status |-> "modified"],
    [filename |-> PathA, status |-> "copied"],
    [filename |-> PathSpace, status |-> "modified"],
    [filename |-> PathSpace, status |-> "removed"],
    [filename |-> PathSpace, status |-> "unchanged"],
    [filename |-> PathNoExt, status |-> "renamed"],
    [filename |-> PathNoExt, status |-> "added"] }

\* The responses of the compare-two-commits API: `files` may be absent.
ApiResponses ==
  [status : HttpStatuses, cmp : CompareStatuses, nofiles : {FALSE},
   files : SeqUpTo(ApiFiles, MaxFiles)]
    \cup [status : HttpStatuses, cmp : CompareStatuses, nofiles : {TRUE},
          files : {<<>>}]

NoResponse == [status |-> 0, cmp |-> "none", nofiles |-> TRUE, files |-> <<>>]

\* A mapping that drops the files of a response that is not a 200.
ResponseFilesOnSuccess(response) ==
  IF response.nofiles \/ response.status # 200 THEN <<>>
  ELSE Map(response.files, LAMBDA file : [name |-> file.filename, status |-> file.status])

\* The value getChangedFilesFromGitHub returns for a response.
ResponseFiles(response) ==
  IF response.nofiles THEN <<>>
  ELSE Map(response.files, LAMBDA file : [name |-> file.filename, status |-> file.status])

\* The setFailed calls getChangedFilesFromGitHub makes for a response.
ResponseFailures(response) ==
  IF response.status # 200 THEN <<"http">> ELSE <<>>

\* The warning calls getChangedFilesFromGitHub makes for a response.
ResponseWarnings(response) ==
  IF response.cmp # "ahead" THEN <<"not ahead">> ELSE <<>>

\* ------------------------------------------------ the context of one run

\* context.sha and the commit ids of the webhook payload.
ContextSha == <<"c", "0">>
PayloadBefore == <<"c", "1">>
PayloadAfter == <<"c", "2">>
PullRequestBaseSha == <<"c", "3">>
PullRequestHeadSha == <<"c", "4">>

\* The event kinds a run is started for; "issues" has no handler.
EventNames == {"pull_request", "push", "workflow_dispatch", "issues"}

\* A table that falls back to the push handler for an unknown event kind.
handlersFallback(eventName) ==
  CASE eventName = "pull_request" -> "handlePullRequestEvent"
    [] eventName = "workflow_dispatch" -> "handleWorkflowDispatchEvent"
    [] OTHER -> "handlePushEvent"

\* The `handlers` table: the handler of an event kind, "none" when the
\* lookup yields undefined.
handlers(eventName) ==
  CASE eventName = "pull_request" -> "handlePullRequestEvent"
    [] eventName = "push" -> "handlePushEvent"
    [] eventName = "workflow_dispatch" -> "handleWorkflowDispatchEvent"
    [] OTHER -> "none"

\* The push revisions with head read from payload.after.
PushRevisionsAfter == [base |-> PayloadBefore, head |-> PayloadAfter]

\* base and head as handlePushEvent reads them from the payload.
PushRevisions == [base |-> PayloadBefore, head |-> PayloadBefore]

\* base and head as handlePullRequestEvent reads them from the payload.
PullRequestRevisions == [base |-> PullRequestBaseSha, head |-> PullRequestHeadSha]

\* ------------------------------------------------------- main.ts: run()

\* The values of the `format` input ("" when unset) and of the `extensions`
\* input ("" when unset).
FormatInputs == {"", "space-delimited", "csv", "json", "xml"}
ExtensionInputs ==
  { <<>>,
    <<".", "t">>,
    <<"t", " ", ".", "m">>,
    <<".", "m", " ", " ", ".", "x">> }

\* core.getInput('format') || 'space-delimited'
FormatOf(input) == IF input = "" THEN "space-delimited" ELSE input

\* (core.getInput('extensions') || '').split(' ').map(it => it.trim())
ExtensionsOf(input) == Map(SplitChar(input, " "), Trim)

\* The setFailed call of the format validation.
FormatFailures(fmt) ==
  IF fmt # "space-delimited" /\ fmt # "csv" /\ fmt # "json" THEN <<"format">> ELSE <<>>

\* path.extname: from the last dot of the last path segment, empty when the
\* segment has no dot or only a leading one.
extname(name) ==
  LET slashes == {i \in 1..Len(name) : name[i] = "/"}
      start == IF slashes = {} THEN 1
               ELSE 1 + CHOOSE i \in slashes : \A j \in slashes : j <= i
      dots == {i \in start..Len(name) : name[i] = "."}
      dot == IF dots = {} THEN 0 ELSE CHOOSE i \in dots : \A j \in dots : j <= i
  IN IF dot = 0 \/ dot = start THEN <<>>
     ELSE IF SubSeq(name, start, Len(name)) = <<".", ".">> THEN <<>>
     ELSE SubSeq(name, dot, Len(name))

\* Array.prototype.includes.
ArrayIncludes(list, x) == \E i \in 1..Len(list) : list[i] = x

\* A filter without the empty-string case.
FilterFilesNoWildcard(changedFiles, extensions) ==
  SelectSeq(changedFiles, LAMBDA it : ArrayIncludes(extensions, extname(it.name)))

\* The filter of the changed files by extension.
FilterFiles(changedFiles, extensions) ==
  SelectSeq(changedFiles,
            LAMBDA it : ArrayIncludes(extensions, extname(it.name))
                          \/ ArrayIncludes(extensions, <<>>))

\* A forEach body whose space check ignores the format.
ClassifyOneAnyFormat(acc, file, fmt) ==
  LET filename == file.name
      spaceFail == IF Includes(filename, " ") THEN <<"space">> ELSE <<>>
      known == file.status \in {"added", "modified", "removed", "renamed"}
  IN [all |-> Append(acc.all, filename),
      added |-> IF file.status = "added" THEN Append(acc.added, filename) ELSE acc.added,
      modified |-> IF file.status = "modified" THEN Append(acc.modified, filename)
                   ELSE acc.modified,
      removed |-> IF file.status = "removed" THEN Append(acc.removed, filename)
                  ELSE acc.removed,
      renamed |-> IF file.status = "renamed" THEN Append(acc.renamed, filename)
                  ELSE acc.renamed,
      addedModified |-> IF file.status \in {"added", "modified"}
                          THEN Append(acc.addedModified, filename)
                          ELSE acc.addedModified,
      failures |-> acc.failures \o spaceFail
                     \o (IF known THEN <<>> ELSE <<"status">>)]

\* The body of files.forEach for one file, on the accumulated lists and
\* setFailed calls.
ClassifyOne(acc, file, fmt) ==
  LET filename == file.name
      spaceFail == IF fmt = "space-delimited" /\ Includes(filename, " ")
                     THEN <<"space">> ELSE <<>>
      known == file.status \in {"added", "modified", "removed", "renamed"}
  IN [all |-> Append(acc.all, filename),
      added |-> IF file.status = "added" THEN Append(acc.added, filename) ELSE acc.added,
      modified |-> IF file.status = "modified" THEN Append(acc.modified, filename)
                   ELSE acc.modified,
      removed |-> IF file.status = "removed" THEN Append(acc.removed, filename)
                  ELSE acc.removed,
      renamed |-> IF file.status = "renamed" THEN Append(acc.renamed, filename)
                  ELSE acc.renamed,
      addedModified |-> IF file.status \in {"added", "modified"}
                          THEN Append(acc.addedModified, filename)
                          ELSE acc.addedModified,
      failures |-> acc.failures \o spaceFail
                     \o (IF known THEN <<>> ELSE <<"status">>)]

EmptyLists ==
  [all |-> <<>>, added |-> <<>>, modified |-> <<>>, removed |-> <<>>,
   renamed |-> <<>>, addedModified |-> <<>>, failures |-> <<>>]

\* A forEach that stops at the first file with an unsupported status.
RECURSIVE ClassifyFromAborting(_, _, _)
ClassifyFromAborting(acc, fs, fmt) ==
  IF fs = <<>> THEN acc
  ELSE IF Head(fs).status \notin {"added", "modified", "removed", "renamed"}
    THEN ClassifyOne(acc, Head(fs), fmt)
  ELSE ClassifyFromAborting(ClassifyOne(acc, Head(fs), fmt), Tail(fs), fmt)

\* files.forEach over the filtered files.
RECURSIVE ClassifyFrom(_, _, _)
ClassifyFrom(acc, fs, fmt) ==
  IF fs = <<>> THEN acc
  ELSE ClassifyFrom(ClassifyOne(acc, Head(fs), fmt), Tail(fs), fmt)

Classify(fs, fmt) == ClassifyFrom(EmptyLists, fs, fmt)

\* The setFailed calls of the space-delimited case of the format switch.
JoinFailures(all, fmt) ==
  IF fmt = "space-delimited"
    THEN Map(SelectSeq(all, LAMBDA file : Includes(file, " ")), LAMBDA file : "space")
    ELSE <<>>

\* The format switch for one list; no case assigns for another format.
FormatList(list, fmt) ==
  CASE fmt = "space-delimited" -> Join(list, <<" ">>)
    [] fmt = "csv" -> Join(list, <<",">>)
    [] fmt = "json" -> JsonStringify(list)
    [] OTHER -> Undefined

\* An output that no setOutput call has set.
NotSet == <<"not set">>

NoOutputs ==
  [all |-> NotSet, added |-> NotSet, modified |-> NotSet, removed |-> NotSet,
   renamed |-> NotSet, added_modified |-> NotSet, deleted |-> NotSet]

\* setOutput calls whose `deleted` is given the renamed files.
SetOutputsDeletedRenamed(l, fmt) ==
  [all |-> FormatList(l.all, fmt),
   added |-> FormatList(l.added, fmt),
   modified |-> FormatList(l.modified, fmt),
   removed |-> FormatList(l.removed, fmt),
   renamed |-> FormatList(l.renamed, fmt),
   added_modified |-> FormatList(l.addedModified, fmt),
   deleted |-> FormatList(l.renamed, fmt)]

\* The seven setOutput calls.
SetOutputs(l, fmt) ==
  [all |-> FormatList(l.all, fmt),
   added |-> FormatList(l.added, fmt),
   modified |-> FormatList(l.modified, fmt),
   removed |-> FormatList(l.removed, fmt),
   renamed |-> FormatList(l.renamed, fmt),
   added_modified |-> FormatList(l.addedModified, fmt),
   deleted |-> FormatList(l.removed, fmt)]

\* ------------------------------------------------------------------ state

VARIABLES
  formatInput,      \* the `format` input
  extensionsInput,  \* the `extensions` input
  eventName,        \* context.eventName
  pc,               \* where run() is: start, an awaited call, or done
  strategies,       \* the handlers invoked, in order
  base, head,       \* the revision pair of the invoked handler
  calls,            \* the git and API calls issued, in order
  lsReply,          \* what ls-remote printed
  diffReply,        \* the entries `git diff` printed
  statusReply,      \* the entries `git status` printed
  response,         \* the compare-commits response
  returned,         \* whether the handler returned its files
  changedFiles,     \* the files the handler returned
  files,            \* the files after the extension filter
  lists,            \* all, added, modified, removed, renamed, addedModified
  outputs,          \* the values set by setOutput
  failures,         \* the messages of the setFailed calls, in order
  warnings,         \* the warning calls, in order
  thrown            \* the value the catch block caught

vars ==
  <<formatInput, extensionsInput, eventName, pc, strategies, base, head, calls,
    lsReply, diffReply, statusReply, response, returned, changedFiles, files,
    lists, outputs, failures, warnings, thrown>>

format == FormatOf(formatInput)
extensions == ExtensionsOf(extensionsInput)

NoThrow == [kind |-> "none", message |-> "none"]
NoLsReply == [kind |-> "none", branch |-> Undefined]

\* What an awaited git or API call rejects with: an Error, or a value that
\* is not an instance of Error.
Rejections ==
  { [kind |-> "Error", message |-> "call failed"],
    [kind |-> "NonError", message |-> "rejected"] }

\* The TypeError of calling the undefined handlers[eventName].
NoHandlerError == [kind |-> "Error", message |-> "handlers[eventName] is not a function"]

Call(op, b, h) == [op |-> op, base |-> b, head |-> h]

Init ==
  /\ formatInput \in FormatInputs
  /\ extensionsInput \in ExtensionInputs
  /\ eventName \in EventNames
  /\ pc = "start"
  /\ strategies = <<>>
  /\ base = Undefined
  /\ head = Undefined
  /\ calls = <<>>
  /\ lsReply = NoLsReply
  /\ diffReply = <<>>
  /\ statusReply = <<>>
  /\ response = NoResponse
  /\ returned = FALSE
  /\ changedFiles = <<>>
  /\ files = <<>>
  /\ lists = EmptyLists
  /\ outputs = NoOutputs
  /\ failures = <<>>
  /\ warnings = <<>>
  /\ thrown = NoThrow

\* The catch block of run(): setFailed with the message of an Error.
CatchFailures(error) ==
  IF error.kind = "Error" THEN <<error.message>> ELSE <<>>

Catch(error) ==
  /\ thrown' = error
  /\ failures' = failures \o CatchFailures(error)
  /\ pc' = "done"

\* run() from the handler's return to its end: filter, classify, format and
\* set the outputs.  `reported` are the setFailed calls the handler made.
Finish(result, reported) ==
  /\ returned' = TRUE
  /\ changedFiles' = result
  /\ files' = FilterFiles(result, extensions)
  /\ lists' = Classify(files', format)
  /\ failures' = failures \o reported \o lists'.failures
                   \o JoinFailures(lists'.all, format)
  /\ outputs' = SetOutputs(lists', format)
  /\ pc' = "done"
  /\ UNCHANGED thrown

\* run() with an event kind that has no handler: the call throws.
RunNoHandler ==
  /\ pc = "start"
  /\ handlers(eventName) = "none"
  /\ thrown' = NoHandlerError
  /\ failures' = FormatFailures(format) \o CatchFailures(NoHandlerError)
  /\ pc' = "done"
  /\ UNCHANGED <<formatInput, extensionsInput, eventName, strategies, base, head,
                 calls, lsReply, diffReply, statusReply, response, returned,
                 changedFiles, files, lists, outputs, warnings>>

\* run() up to handlePushEvent's compareCommits call.
HandlePushEvent ==
  /\ pc = "start"
  /\ handlers(eventName) = "handlePushEvent"
  /\ failures' = FormatFailures(format)
  /\ strategies' = Append(strategies, "handlePushEvent")
  /\ base' = PushRevisions.base
  /\ head' = PushRevisions.head
  /\ calls' = Append(calls, Call("compareCommits", base', head'))
  /\ pc' = "compareCommits"
  /\ UNCHANGED <<formatInput, extensionsInput, eventName, lsReply, diffReply,
                 statusReply, response, returned, changedFiles, files, lists,
                 outputs, warnings, thrown>>

\* run() up to handlePullRequestEvent's compareCommits call.
HandlePullRequestEvent ==
  /\ pc = "start"
  /\ handlers(eventName) = "handlePullRequestEvent"
  /\ failures' = FormatFailures(format)
  /\ strategies' = Append(strategies, "handlePullRequestEvent")
  /\ base' = PullRequestRevisions.base
  /\ head' = PullRequestRevisions.head
  /\ calls' = Append(calls, Call("compareCommits", base', head'))
  /\ pc' = "compareCommits"
  /\ UNCHANGED <<formatInput, extensionsInput, eventName, lsReply, diffReply,
                 statusReply, response, returned, changedFiles, files, lists,
                 outputs, warnings, thrown>>

\* run() up to handleWorkflowDispatchEvent's getDefaultBranch call.
HandleWorkflowDispatchEvent ==
  /\ pc = "start"
  /\ handlers(eventName) = "handleWorkflowDispatchEvent"
  /\ failures' = FormatFailures(format)
  /\ strategies' = Append(strategies, "handleWorkflowDispatchEvent")
  /\ head' = ContextSha
  /\ calls' = Append(calls, Call("ls-remote", Undefined, Undefined))
  /\ pc' = "getDefaultBranch"
  /\ UNCHANGED <<formatInput, extensionsInput, eventName, base, lsReply, diffReply,
                 statusReply, response, returned, changedFiles, files, lists,
                 outputs, warnings, thrown>>

\* ls-remote returns: getDefaultBranch parses it, then getDiff is called, or
\* the parse error is thrown.
DefaultBranchReturns ==
  /\ pc = "getDefaultBranch"
  /\ \E r \in LsRemoteReplies :
       LET parsed == getDefaultBranch(LsRemoteText(r))
       IN /\ lsReply' = r
          /\ IF parsed.ok
               THEN /\ base' = parsed.value
                    /\ calls' = Append(calls, Call("getDiff", base', head))
                    /\ pc' = "getDiff"
                    /\ UNCHANGED <<failures, thrown>>
               ELSE /\ Catch([kind |-> "Error", message |-> parsed.error])
                    /\ UNCHANGED <<base, calls>>
  /\ UNCHANGED <<formatInput, extensionsInput, eventName, strategies, head,
                 diffReply, statusReply, response, returned, changedFiles, files,
                 lists, outputs, warnings>>

\* `git diff` returns, then getStatus is called.
DiffReturns ==
  /\ pc = "getDiff"
  /\ diffReply' \in SeqUpTo(DiffEntries, MaxLines)
  /\ calls' = Append(calls, Call("getStatus", Undefined, Undefined))
  /\ pc' = "getStatus"
  /\ UNCHANGED <<formatInput, extensionsInput, eventName, strategies, base, head,
                 lsReply, statusReply, response, returned, changedFiles, files,
                 lists, outputs, failures, warnings, thrown>>

\* `git status` returns: the lines are parsed and run() goes on to its end.
StatusReturns ==
  /\ pc = "getStatus"
  /\ \E reply \in SeqUpTo(StatusEntries, MaxLines) :
       \E result \in {getChangedFilesFromGit(OutputText(Map(diffReply, DiffLine)),
                                              OutputText(Map(reply, StatusLine)))} :
         /\ statusReply' = reply
         /\ Finish(result, <<>>)
  /\ UNCHANGED <<formatInput, extensionsInput, eventName, strategies, base, head,
                 calls, lsReply, diffReply, response, warnings>>

\* compareCommits returns: the response is checked and mapped and run() goes
\* on to its end.
CompareReturns ==
  /\ pc = "compareCommits"
  /\ response' \in ApiResponses
  /\ warnings' = warnings \o ResponseWarnings(response')
  /\ Finish(ResponseFiles(response'), ResponseFailures(response'))
  /\ UNCHANGED <<formatInput, extensionsInput, eventName, strategies, base, head,
                 calls, lsReply, diffReply, statusReply>>

\* An awaited git or API call rejects: the catch block of run() takes over.
CallRejects ==
  /\ pc \in {"getDefaultBranch", "getDiff", "getStatus", "compareCommits"}
  /\ \E error \in Rejections : Catch(error)
  /\ UNCHANGED <<formatInput, extensionsInput, eventName, strategies, base, head,
                 calls, lsReply, diffReply, statusReply, response, returned,
                 changedFiles, files, lists, outputs, warnings>>

Next ==
  \/ RunNoHandler
  \/ HandlePushEvent
  \/ HandlePullRequestEvent
  \/ HandleWorkflowDispatchEvent
  \/ DefaultBranchReturns
  \/ DiffReturns
  \/ StatusReturns
  \/ CompareReturns
  \/ CallRejects

Spec == Init /\ [][Next]_vars

\* ------------------------------------------------------------- properties

SupportedEvents == {"pull_request", "push", "workflow_dispatch"}
KnownStatuses == {"added", "modified", "removed", "renamed"}
Failed(message) == \E i \in 1..Len(failures) : failures[i] = message
Count(list, x) == Cardinality({i \in 1..Len(list) : list[i] = x})
Names(fs) == [i \in 1..Len(fs) |-> fs[i].name]
WithStatus(fs, statuses) == SelectSeq(fs, LAMBDA f : f.status \in statuses)
ListOf(st) ==
  CASE st = "added" -> lists.added
    [] st = "modified" -> lists.modified
    [] st = "removed" -> lists.removed
    [] st = "renamed" -> lists.renamed
\* The path a line of git's output reports: the path after the rename when
\* the line is a rename.
EntryPath(e) == IF e.new = Undefined THEN e.old ELSE e.new

OutputNames == {"all", "added", "modified", "removed", "renamed", "added_modified", "deleted"}
OutputsSet == \A n \in OutputNames : outputs[n] # NotSet
OutputsUnset == \A n \in OutputNames : outputs[n] = NotSet

\* C1: whenever a value was thrown inside run(), the run ends marked failed,
\* the last setFailed call carrying the thrown value's message.
C1_EveryThrowMarksFailed ==
  (pc = "done" /\ thrown # NoThrow) =>
    /\ failures # <<>>
    /\ failures[Len(failures)] = thrown.message

\* C2: a run for an event kind without a handler is marked failed when it
\* ends, issues no git or API call and sets none of the outputs.
C2_UnsupportedEventFails ==
  eventName \notin SupportedEvents =>
    /\ calls = <<>>
    /\ OutputsUnset
    /\ ~returned
    /\ pc = "done" => thrown.kind = "Error" /\ Failed(thrown.message)

C2_Witness == pc = "done" /\ eventName = "issues" /\ failures # <<>>

\* C3: on the workflow_dispatch path every line git printed yields exactly
\* one record, in line order, named by the line's path (the path after the
\* rename for a rename line).
C3_OneRecordPerLine ==
  (pc = "done" /\ returned /\ eventName = "workflow_dispatch") =>
    LET entries == diffReply \o statusReply
    IN /\ Len(changedFiles) = Len(entries)
       /\ \A i \in 1..Len(entries) :
            i <= Len(changedFiles) => changedFiles[i].name = EntryPath(entries[i])

\* C4: for push and pull_request the files returned are the response's files
\* entry by entry (none when the response has no files), whatever the HTTP
\* status and the comparison status; a non-200 status marks the run failed,
\* a status other than "ahead" warns, and the outputs are still set.
C4_ResponseFilesPropagate ==
  (pc = "done" /\ response # NoResponse) =>
    /\ eventName \in {"push", "pull_request"}
    /\ returned
    /\ thrown = NoThrow
    /\ Len(changedFiles) = Len(response.files)
    /\ \A i \in 1..Len(response.files) :
         /\ changedFiles[i].name = response.files[i].filename
         /\ changedFiles[i].status = response.files[i].status
    /\ Failed("http") <=> response.status # 200
    /\ warnings # <<>> <=> response.cmp # "ahead"
    /\ OutputsSet
    /\ extensionsInput = <<>> =>
         /\ lists.all = [i \in 1..Len(response.files) |-> response.files[i].filename]
         /\ outputs.all = FormatList(lists.all, format)

C4_Witness ==
  /\ pc = "done"
  /\ response.status = 404
  /\ response.cmp = "behind"
  /\ Len(response.files) = 2
  /\ extensionsInput = <<>>
  /\ Len(lists.all) = 2
  /\ OutputsSet

\* C5 as stated: the revision pair is fixed by the event kind, and in every
\* run exactly one strategy is executed.
RevisionPairByEvent ==
  \A i \in 1..Len(calls) :
    LET call == calls[i]
    IN /\ call.op = "compareCommits" =>
            /\ eventName \in {"push", "pull_request"}
            /\ call.base = base /\ call.head = head
            /\ eventName = "push" =>
                 call.base = PayloadBefore /\ call.head = PayloadBefore
            /\ eventName = "pull_request" =>
                 call.base = PullRequestBaseSha /\ call.head = PullRequestHeadSha
       /\ call.op = "getDiff" =>
            /\ eventName = "workflow_dispatch"
            /\ call.base = base /\ call.head = head
            /\ call.base # Undefined
            /\ call.base = lsReply.branch
            /\ call.head = ContextSha
       /\ call.op \in {"ls-remote", "getStatus"} => eventName = "workflow_dispatch"
       /\ call.op \in {"compareCommits", "getDiff", "ls-remote", "getStatus"}

C5_OneStrategyInEveryRun ==
  /\ RevisionPairByEvent
  /\ pc # "start" => Len(strategies) = 1

\* C5, amended: the revision pair handed to the retrieval call is fixed by
\* the event kind (push: payload.before twice; pull_request: base sha and
\* head sha; workflow_dispatch: the resolved default branch and context.sha)
\* and is determined when the call is issued; a run for one of the three
\* supported event kinds executes exactly one strategy, the one of its kind,
\* and a run for any other kind executes none.
C5_OneStrategyPerSupportedEvent ==
  /\ RevisionPairByEvent
  /\ Len(strategies) <= 1
  /\ (pc # "start" /\ eventName = "push") => strategies = <<"handlePushEvent">>
  /\ (pc # "start" /\ eventName = "pull_request") =>
       strategies = <<"handlePullRequestEvent">>
  /\ (pc # "start" /\ eventName = "workflow_dispatch") =>
       strategies = <<"handleWorkflowDispatchEvent">>
  /\ eventName \notin SupportedEvents => strategies = <<>>
  /\ returned =>
       \E i \in 1..Len(calls) : calls[i].op \in {"compareCommits", "getDiff"}

C5_Witness ==
  /\ pc = "done"
  /\ eventName = "push"
  /\ returned
  /\ calls = <<Call("compareCommits", PayloadBefore, PayloadBefore)>>

\* C6: every one-character status code maps to a defined status (A, M, D, R
\* and ? as listed, any other code to changed); a file whose status is none
\* of added, modified, removed, renamed marks the run failed without
\* stopping it: the files after it are classified, it is listed in `all`,
\* and the outputs are set.
StatusCodes == {"A", "M", "D", "R", "?", "T", "C", "U", "X", "!", " ", "a"}
ExpectedStatus(c) ==
  IF c = "A" \/ c = "?" THEN "added"
  ELSE IF c = "M" THEN "modified"
  ELSE IF c = "D" THEN "removed"
  ELSE IF c = "R" THEN "renamed"
  ELSE "changed"

C6_StatusHandlingTotal ==
  /\ \A c \in StatusCodes : mapFileStatus(<<c>>) = ExpectedStatus(c)
  /\ eventName = "workflow_dispatch" =>
       \A i \in 1..Len(changedFiles) :
         changedFiles[i].status \in KnownStatuses \cup {"changed"}
  /\ (pc = "done" /\ returned) =>
       /\ Count(failures, "status")
            = Cardinality({i \in 1..Len(files) : files[i].status \notin KnownStatuses})
       /\ lists.all = Names(files)
       /\ \A st \in KnownStatuses :
            Len(ListOf(st)) = Len(WithStatus(files, {st}))
       /\ OutputsSet
       /\ thrown = NoThrow

C6_Witness ==
  /\ pc = "done"
  /\ Len(files) >= 2
  /\ files[1].status \notin KnownStatuses
  /\ files[2].status \in KnownStatuses
  /\ Failed("status")
  /\ Len(lists.all) = Len(files)
  /\ OutputsSet

\* C7: getDefaultBranch returns the branch named after refs/heads/ on the
\* symbolic-ref line for every branch name, and fails with "Unexpected
\* output when retrieving default branch" exactly when no line of the output
\* starts with `ref:` or ends in `HEAD`.
C7_DefaultBranchParsed ==
  /\ lsReply.kind = "symref" =>
       /\ base = lsReply.branch
       /\ ~Failed(DefaultBranchError)
  /\ lsReply.kind = "nohead" =>
       /\ base = Undefined
       /\ Failed(DefaultBranchError)

\* C8: the extension filter keeps every file, in order, when the list holds
\* the empty string (as it does for an unset input); otherwise it keeps, in
\* order, exactly the files whose path extension is an element of the list.
C8_ExtensionFilter ==
  (pc = "done" /\ returned) =>
    LET wanted == {extensions[i] : i \in 1..Len(extensions)}
    IN /\ extensionsInput = <<>> => <<>> \in wanted
       /\ <<>> \in wanted => files = changedFiles
       /\ <<>> \notin wanted =>
            files = SelectSeq(changedFiles, LAMBDA f : extname(f.name) \in wanted)

C8_Witness ==
  /\ pc = "done"
  /\ returned
  /\ ~ArrayIncludes(extensions, <<>>)
  /\ files # <<>>
  /\ Len(files) < Len(changedFiles)

\* C9: the run is marked failed for its format exactly when the format is
\* none of space-delimited, csv, json, and for a file name exactly when the
\* format is space-delimited and a file that survived the filter has a name
\* with a space.
C9_FormatFailures ==
  /\ pc = "start" => failures = <<>>
  /\ pc # "start" =>
       (Failed("format") <=> formatInput \notin {"", "space-delimited", "csv", "json"})
  /\ Failed("space") <=>
       /\ returned
       /\ formatInput \in {"", "space-delimited"}
       /\ \E i \in 1..Len(files) : Includes(files[i].name, " ")

C9_Witness ==
  /\ pc = "done"
  /\ formatInput = ""
  /\ Failed("space")
  /\ ~Failed("format")
  /\ \E i \in 1..Len(files) : files[i].name = PathSpace

\* C10: the seven outputs are set together; `all` is the filtered files in
\* order, each of added, modified, removed, renamed holds in order exactly
\* the files of that status, added_modified those added or modified, and
\* `deleted` equals `removed`.
C10_OutputsConsistent ==
  /\ OutputsSet \/ OutputsUnset
  /\ OutputsSet <=> returned
  /\ OutputsSet =>
       /\ lists.all = Names(files)
       /\ lists.added = Names(WithStatus(files, {"added"}))
       /\ lists.modified = Names(WithStatus(files, {"modified"}))
       /\ lists.removed = Names(WithStatus(files, {"removed"}))
       /\ lists.renamed = Names(WithStatus(files, {"renamed"}))
       /\ lists.addedModified = Names(WithStatus(files, {"added", "modified"}))
       /\ outputs.deleted = outputs.removed
       /\ outputs.all = FormatList(lists.all, format)
       /\ outputs.added = FormatList(lists.added, format)
       /\ outputs.modified = FormatList(lists.modified, format)
       /\ outputs.removed = FormatList(lists.removed, format)
       /\ outputs.renamed = FormatList(lists.renamed, format)
       /\ outputs.added_modified = FormatList(lists.addedModified, format)

C10_Witness ==
  /\ pc = "done"
  /\ OutputsSet
  /\ formatInput = "json"
  /\ lists.removed # <<>>
  /\ lists.addedModified # <<>>
  /\ outputs.deleted = outputs.removed
  /\ outputs.deleted # outputs.renamed

====
